---- MODULE Spec2Model ----
(***************************************************************************)
(* Model of skpro's vectorised distribution base class                     *)
(* (skpro/distributions/distribution_base.py): evaluation modes, the       *)
(* cached index used by element-wise evaluation, measure-kind and support  *)
(* gating of pdf/pmf/cdf, and subsetting through __getitem__.              *)
(***************************************************************************)
EXTENDS Integers, Sequences, FiniteSets, TLC

VARIABLES objs, last

vars == <<objs, last>>

(* ---------------------------------------------------------------- bounds *)

\* largest vectorSize of a constructed distribution
MaxM == 3

\* largest number of query points in one call
MaxN == 4

(* ------------------------------------------------------------- encodings *)

\* slice(None), the "select all" value of cached_index_; integers >= 0 are
\* single distribution positions
SliceNone == -1

\* Python's None where an integer could stand (slice.start, slice.stop, slice.step)
PyNone == -2

\* a query entry the concrete implementation cannot evaluate
NaP == -3

\* a query entry outside a half-line support
OutPoint == 0

(* ----------------------------------------------------------- enumerations *)

distType == {"UNDEFINED", "DISCRETE", "CONTINUOUS", "MIXED"}

Mode == {"ELEMENT_WISE", "BATCH"}

\* values a caller can pass as a mode: the members of Mode and a non-member
ModeArgs == Mode \cup {"NOT_A_MODE"}

\* the support objects: NulleSupport accepts everything, PositiveSupport
\* accepts the points >= 1
Supports == {"NulleSupport", "PositiveSupport"}

\* "abstract": pdf_imp/pmf_imp/cdf_imp are the ones of DPQRMixin;
\* "concrete": the class overrides them
Impls == {"abstract", "concrete"}

(* ------------------------------------------------------- python sequences *)

Min(a, b) == IF a <= b THEN a ELSE b

\* number of positions selected by slice(start, stop, step) with
\* 0 <= start, 0 <= stop, step >= 1, in a sequence long enough
SliceLen(start, stop, step) ==
    IF start >= stop THEN 0 ELSE ((stop - start - 1) \div step) + 1

\* seq[start:stop:step] for 0-based start, stop clipped to the length
PySlice(seq, start, stop, step) ==
    LET hi == Min(stop, Len(seq))
        lo == Min(start, Len(seq))
    IN  [j \in 1..SliceLen(lo, hi, step) |-> seq[lo + (j - 1) * step + 1]]

\* utils.dim(X): the number of query points
dim(X) == Len(X)

(* ------------------------------------------------------------ components *)

\* support().inSupport(X)
inSupport(support, X) ==
    IF support = "NulleSupport" THEN TRUE
    ELSE \A i \in 1..Len(X) : X[i] >= 1

\* the value a concrete closed form gives for parameter p at point x
\* (injective in (p, x) for the points and parameters used here)
impValue(p, x) == 10 * p + x

NoResult == [shape |-> <<>>, data |-> <<>>]

(* ------------------------------------------------------------ construction *)

\* vectorSize the concrete constructor derives from its parameter list
ctorVectorSize(params) == Len(params)

\* DistributionBase.__checkInit: TRUE when registration is refused
checkInitRaises(vectorSize) == vectorSize < 1

\* DistributionBase.__init__ as reached from a concrete class constructor
DistributionBase__init__(dtype, params, support, impl, mode) ==
    [ dtype_        |-> dtype,
      cached_index_ |-> SliceNone,
      vectorSize_   |-> ctorVectorSize(params),
      support_      |-> support,
      params        |-> params,
      impl          |-> impl,
      mode_         |-> IF mode \notin Mode THEN "ELEMENT_WISE" ELSE mode ]

(* ------------------------------------------------------------ evaluation *)

\* get_cached_param that ignores cached_index_
get_cached_param_all(o) == o.params

\* get_cached_param(key): the parameter values selected by cached_index_
get_cached_param(o) ==
    IF o.cached_index_ = SliceNone THEN o.params
    ELSE <<o.params[o.cached_index_ + 1]>>

\* pdf_imp / pmf_imp / cdf_imp raise: always for the DPQRMixin defaults, on a
\* point that cannot be evaluated for a concrete class
impRaises(o, X) ==
    \/ o.impl = "abstract"
    \/ \E i \in 1..Len(X) : X[i] = NaP

\* pdf_imp / pmf_imp / cdf_imp of a concrete class: evaluates X against the
\* parameters get_cached_param returns. With all m distributions selected
\* the result is n x m (m x 1 for one point); with a single distribution
\* selected it is a 1-D array over the points.
imp(o, X) ==
    LET p == get_cached_param(o)
        n == Len(X)
        m == Len(p)
    IN  IF o.cached_index_ = SliceNone
        THEN IF n = 1
             THEN [shape |-> <<m, 1>>,
                   data  |-> [j \in 1..m |-> impValue(p[j], X[1])]]
             ELSE [shape |-> <<n, m>>,
                   data  |-> [c \in 1..(n * m) |->
                                impValue(p[((c - 1) % m) + 1], X[((c - 1) \div m) + 1])]]
        ELSE [shape |-> <<n>>,
              data  |-> [i \in 1..n |-> impValue(p[1], X[i])]]

\* one call of fn(X) under the object's current cached_index_
callImp(o, X) ==
    IF impRaises(o, X)
    THEN [raised |-> TRUE, error |-> "function not implemented", result |-> NoResult,
          cached_index_ |-> o.cached_index_,
          calls |-> <<[sel |-> o.cached_index_, at |-> X]>>]
    ELSE [raised |-> FALSE, error |-> "", result |-> imp(o, X),
          cached_index_ |-> o.cached_index_,
          calls |-> <<[sel |-> o.cached_index_, at |-> X]>>]

\* result[s] = vals for s = slice(start, len(result), step)
AssignSlice(result, start, step, vals) ==
    [i \in 1..Len(result) |->
        IF (i - 1) >= start /\ ((i - 1 - start) % step) = 0
        THEN vals[((i - 1 - start) \div step) + 1]
        ELSE result[i]]

\* the loop without the assignment self.cached_index_ = index
RECURSIVE wrapperLoop_noSelect(_, _, _, _, _)
wrapperLoop_noSelect(o, X, index, result, calls) ==
    LET n_   == dim(X)
        step == Min(o.vectorSize_, n_)
        at   == PySlice(X, index, n_, step)
        log  == Append(calls, [sel |-> o.cached_index_, at |-> at])
    IN  IF index >= step
        THEN [raised |-> FALSE, error |-> "",
              result |-> [shape |-> <<n_>>, data |-> result],
              cached_index_ |-> SliceNone, calls |-> calls]
        ELSE IF impRaises(o, at)
        THEN [raised |-> TRUE, error |-> "function not implemented",
              result |-> NoResult, cached_index_ |-> o.cached_index_, calls |-> log]
        ELSE wrapperLoop_noSelect(o, X, index + 1,
                                  AssignSlice(result, index, step,
                                              PySlice(imp(o, at).data, 0, Len(at), 1)), log)

\* the loop of elementWiseDecorator.wrapper from iteration `index` on
RECURSIVE wrapperLoop(_, _, _, _, _)
wrapperLoop(o, X, index, result, calls) ==
    LET n_   == dim(X)
        step == Min(o.vectorSize_, n_)
        self == [o EXCEPT !.cached_index_ = index]
        at   == PySlice(X, index, n_, step)
        log  == Append(calls, [sel |-> index, at |-> at])
    IN  IF index >= step
        THEN [raised |-> FALSE, error |-> "",
              result |-> [shape |-> <<n_>>, data |-> result],
              cached_index_ |-> SliceNone, calls |-> calls]
        ELSE IF impRaises(self, at)
        THEN [raised |-> TRUE, error |-> "function not implemented",
              result |-> NoResult, cached_index_ |-> index, calls |-> log]
        ELSE wrapperLoop(o, X, index + 1,
                         AssignSlice(result, index, step, imp(self, at).data), log)

\* the wrapper without the n_ == 1 shortcut
wrapper_noShortcut(o, X) == wrapperLoop(o, X, 0, [i \in 1..dim(X) |-> 0], <<>>)

\* elementWiseDecorator(fn)(X)
wrapper(o, X) ==
    IF dim(X) = 1
    THEN callImp(o, X)
    ELSE wrapperLoop(o, X, 0, [i \in 1..dim(X) |-> 0], <<>>)

Raise(o, msg) ==
    [raised |-> TRUE, error |-> msg, result |-> NoResult,
     cached_index_ |-> o.cached_index_, calls |-> <<>>]

\* pdf whose kind check forgets UNDEFINED
pdf_discreteOnly(o, X) ==
    IF o.dtype_ \in {"DISCRETE"}
    THEN Raise(o, "pdf function not permitted for non continuous distribution")
    ELSE IF ~inSupport(o.support_, X)
    THEN Raise(o, "X is outside permitted support")
    ELSE IF o.mode_ = "ELEMENT_WISE"
    THEN wrapper(o, X)
    ELSE callImp(o, X)

\* DistributionBase.pdf
pdf(o, X) ==
    IF o.dtype_ \in {"DISCRETE", "UNDEFINED"}
    THEN Raise(o, "pdf function not permitted for non continuous distribution")
    ELSE IF ~inSupport(o.support_, X)
    THEN Raise(o, "X is outside permitted support")
    ELSE IF o.mode_ = "ELEMENT_WISE"
    THEN wrapper(o, X)
    ELSE callImp(o, X)

\* DistributionBase.pmf
pmf(o, X) ==
    IF o.dtype_ \in {"CONTINUOUS", "UNDEFINED"}
    THEN Raise(o, "pmf function not permitted for non continuous distribution")
    ELSE IF ~inSupport(o.support_, X)
    THEN Raise(o, "X is outside permitted support")
    ELSE IF o.mode_ = "ELEMENT_WISE"
    THEN wrapper(o, X)
    ELSE callImp(o, X)

\* DistributionBase.cdf
cdf(o, X) ==
    IF o.mode_ = "ELEMENT_WISE"
    THEN wrapper(o, X)
    ELSE callImp(o, X)

\* DistributionBase.setMode: the new mode_, or the old one when it raises
setModeRaises(mode) == mode \notin Mode

\* setMode falling back to ELEMENT_WISE as the constructor does
setMode_fallback(o, mode) == IF mode \notin Mode THEN "ELEMENT_WISE" ELSE mode

setMode(o, mode) == IF setModeRaises(mode) THEN o.mode_ ELSE mode

\* DistributionBase.reset
reset(o) == [o EXCEPT !.cached_index_ = SliceNone]

(* -------------------------------------------------------------- subsetting *)

NoIndex == [kind |-> "", k |-> PyNone, start |-> PyNone, stop |-> PyNone, step |-> PyNone]

IntIndex(k) == [NoIndex EXCEPT !.kind = "int", !.k = k]

SliceIndex(start, stop, step) ==
    [NoIndex EXCEPT !.kind = "slice", !.start = start, !.stop = stop, !.step = step]

\* the arguments __getitem__ is called with: None, a mode keyword, an integer
\* position, a slice
Indexes ==
    {[NoIndex EXCEPT !.kind = "None"], [NoIndex EXCEPT !.kind = "str"]}
    \cup {IntIndex(k) : k \in 0..MaxM}
    \cup {SliceIndex(a, b, c) : a \in {PyNone, 1},
                                b \in {PyNone} \cup 1..(MaxM + 1),
                                c \in {PyNone, 2}}

\* paramsFrame_.getSubset(selection): the parameters of the selected distributions
getSubset(params, selection) ==
    IF selection.kind = "int" THEN <<params[selection.k + 1]>>
    ELSE IF selection.kind = "slice"
    THEN PySlice(params,
                 IF selection.start = PyNone THEN 0 ELSE selection.start,
                 IF selection.stop = PyNone THEN Len(params) ELSE selection.stop,
                 IF selection.step = PyNone THEN 1 ELSE selection.step)
    ELSE params

\* __getitem__ without the bounds check on slices
getitemError_noSliceCheck(o, index) ==
    LET len == o.vectorSize_
    IN  IF index.kind = "int" /\ index.k >= len
        THEN "Selection is out of bounds"
        ELSE IF checkInitRaises(ctorVectorSize(getSubset(o.params, index)))
        THEN "\"vectorSize\" attribute must be none zero before parameters registration"
        ELSE ""

\* the error __getitem__ raises for index on a distribution of length len, "" if none
getitemError(o, index) ==
    LET len == o.vectorSize_
    IN  IF index.kind = "int" /\ index.k >= len
        THEN "Selection is out of bounds"
        ELSE IF index.kind = "slice" /\ index.stop = PyNone
        THEN "TypeError: '>=' not supported between 'NoneType' and 'int'"
        ELSE IF index.kind = "slice" /\ index.stop >= len
        THEN "Selection is out of bounds"
        ELSE IF checkInitRaises(ctorVectorSize(getSubset(o.params, index)))
        THEN "\"vectorSize\" attribute must be none zero before parameters registration"
        ELSE ""

\* a replication made by copying self and narrowing its parameters
replication_copy(o, index) ==
    [o EXCEPT !.params = getSubset(o.params, index),
              !.vectorSize_ = ctorVectorSize(getSubset(o.params, index))]

\* the replication __getitem__ returns: self.__class__(**subset), then reset()
replication(o, index) ==
    reset(DistributionBase__init__(o.dtype_, getSubset(o.params, index),
                                   o.support_, o.impl, "BATCH"))

(* ------------------------------------------------------------------ state *)

\* the queries: the points 1..n, possibly with the last entry replaced by a
\* point outside the half-line support or by one that cannot be evaluated
Queries ==
    UNION {{[i \in 1..n |-> i]}
           \cup {[i \in 1..n |-> IF i = n THEN v ELSE i] : v \in {OutPoint, NaP}}
           : n \in 1..MaxN}

\* the queries used while a replica is kept next to its parent
SubQueries == {<<1>>, <<NaP>>, <<1, 2>>, <<1, NaP>>}

NoObject == DistributionBase__init__("UNDEFINED", <<>>, "NulleSupport", "abstract", "BATCH")

Event(op, o) ==
    [op |-> op, obj |-> o, X |-> <<>>, modeArg |-> "", index |-> NoIndex,
     mode0 |-> "", sel0 |-> SliceNone, raised |-> FALSE, error |-> "",
     result |-> NoResult, calls |-> <<>>, created |-> 0, replica |-> NoObject]

Init ==
    \E m \in 1..MaxM, dtype \in distType, support \in Supports,
       impl \in Impls, mode \in ModeArgs :
        /\ objs = <<DistributionBase__init__(dtype, [j \in 1..m |-> j], support, impl, mode)>>
        /\ last = [Event("__init__", 1) EXCEPT !.modeArg = mode]

Live == 1..Len(objs)

\* a functional call: its outcome r is recorded, the selector it leaves is stored
Functional(op, o, X, r) ==
    /\ objs' = [objs EXCEPT ![o].cached_index_ = r.cached_index_]
    /\ last' = [Event(op, o) EXCEPT !.X = X, !.mode0 = objs[o].mode_,
                                    !.sel0 = objs[o].cached_index_,
                                    !.raised = r.raised, !.error = r.error,
                                    !.result = r.result, !.calls = r.calls]

Pdf(o, X) == Functional("pdf", o, X, pdf(objs[o], X))

Pmf(o, X) == Functional("pmf", o, X, pmf(objs[o], X))

Cdf(o, X) == Functional("cdf", o, X, cdf(objs[o], X))

SetMode(o, mode) ==
    /\ objs' = [objs EXCEPT ![o].mode_ = setMode(objs[o], mode)]
    /\ last' = [Event("setMode", o) EXCEPT !.modeArg = mode, !.mode0 = objs[o].mode_,
                                           !.sel0 = objs[o].cached_index_,
                                           !.raised = setModeRaises(mode),
                                           !.error = IF setModeRaises(mode)
                                                     THEN "unrecognize distribution mode"
                                                     ELSE ""]

Reset(o) ==
    /\ objs' = [objs EXCEPT ![o] = reset(objs[o])]
    /\ last' = [Event("reset", o) EXCEPT !.mode0 = objs[o].mode_,
                                         !.sel0 = objs[o].cached_index_]

\* squared_norm calls squared_norm_imp, which DPQRMixin leaves raising
SquaredNorm(o) ==
    /\ objs' = objs
    /\ last' = [Event("squared_norm", o) EXCEPT !.mode0 = objs[o].mode_,
                                                !.sel0 = objs[o].cached_index_,
                                                !.raised = (objs[o].impl = "abstract"),
                                                !.error = IF objs[o].impl = "abstract"
                                                          THEN "function not implemented"
                                                          ELSE ""]

\* get_cached_param(key) called from outside an evaluation
GetCachedParam(o) ==
    /\ objs' = objs
    /\ last' = [Event("get_cached_param", o) EXCEPT
                    !.mode0 = objs[o].mode_, !.sel0 = objs[o].cached_index_,
                    !.result = [shape |-> <<Len(get_cached_param(objs[o]))>>,
                                data  |-> get_cached_param(objs[o])]]

\* __getitem__(index); the caller keeps the returned replica (it becomes
\* object 2, replacing a replica of object 1 kept earlier) or drops it
GetItem(o, index, keep) ==
    LET err == getitemError(objs[o], index)
    IN  /\ objs' = IF err = "" /\ keep
                   THEN <<objs[1], replication(objs[o], index)>>
                   ELSE objs
        /\ last' = [Event("__getitem__", o) EXCEPT
                        !.index = index, !.mode0 = objs[o].mode_,
                        !.sel0 = objs[o].cached_index_,
                        !.raised = (err # ""), !.error = err,
                        !.created = IF err = "" THEN 1 ELSE 0,
                        !.replica = IF err = "" THEN replication(objs[o], index)
                                    ELSE NoObject]

Next ==
    \/ \E o \in Live, X \in Queries : Pdf(o, X)
    \/ \E o \in Live, X \in Queries : Pmf(o, X)
    \/ \E o \in Live, X \in Queries : Cdf(o, X)
    \/ \E o \in Live, mode \in ModeArgs : SetMode(o, mode)
    \/ \E o \in Live : Reset(o)
    \/ \E o \in Live : SquaredNorm(o)
    \/ \E o \in Live : GetCachedParam(o)
    \/ \E o \in Live, index \in Indexes : GetItem(o, index, FALSE)

Spec == Init /\ [][Next]_vars

\* a continuous distribution with the default support, whose replicas are kept
InitSubset ==
    \E m \in 1..MaxM, impl \in Impls :
        /\ objs = <<DistributionBase__init__("CONTINUOUS", [j \in 1..m |-> j],
                                             "NulleSupport", impl, "BATCH")>>
        /\ last = [Event("__init__", 1) EXCEPT !.modeArg = "BATCH"]

NextSubset ==
    \/ \E o \in Live, X \in SubQueries : Cdf(o, X)
    \/ \E o \in Live, mode \in ModeArgs : SetMode(o, mode)
    \/ \E o \in Live : Reset(o)
    \/ \E o \in Live, index \in Indexes : GetItem(o, index, o = 1)

SpecSubset == InitSubset /\ [][NextSubset]_vars

(* ----------------------------------------------------------------- claims *)

Functionals == {"pdf", "pmf", "cdf"}

\* the object the last operation was called on, as it is now and as it was
\* when the call began
Target == objs[last.obj]

TargetBefore == [Target EXCEPT !.cached_index_ = last.sel0, !.mode_ = last.mode0]

\* the functional `op` evaluated on object o
Apply(op, o, X) ==
    IF op = "pdf" THEN pdf(o, X) ELSE IF op = "pmf" THEN pmf(o, X) ELSE cdf(o, X)

KindError(op) ==
    IF op = "pdf" THEN "pdf function not permitted for non continuous distribution"
    ELSE "pmf function not permitted for non continuous distribution"

\* C1: after every pdf, pmf or cdf call made in ELEMENT_WISE mode, returned
\* or raised, cached_index_ is slice(None).
C1_SelectorResetAfterCall ==
    (last.op \in Functionals /\ last.mode0 = "ELEMENT_WISE")
        => Target.cached_index_ = SliceNone

\* C2: an ELEMENT_WISE query of n > 1 points that returns gives a flat
\* length-n sequence whose entry i is the implementation's value for point i
\* under the parameters of distribution (i mod m).
C2_ElementWisePairsModulo ==
    (last.op \in Functionals /\ last.mode0 = "ELEMENT_WISE"
        /\ Len(last.X) > 1 /\ ~last.raised)
        => /\ last.result.shape = <<Len(last.X)>>
           /\ Len(last.result.data) = Len(last.X)
           /\ \A i \in 0..(Len(last.X) - 1) :
                last.result.data[i + 1] =
                    impValue(Target.params[(i % Target.vectorSize_) + 1], last.X[i + 1])

\* C2 witness: a returned ELEMENT_WISE query with n > m > 1, n not a multiple of m
C2_Witness ==
    /\ last.op \in Functionals /\ last.mode0 = "ELEMENT_WISE" /\ ~last.raised
    /\ Target.vectorSize_ > 1
    /\ Len(last.X) > Target.vectorSize_
    /\ Len(last.X) % Target.vectorSize_ # 0

\* C3: a BATCH call that returns started with cached_index_ at slice(None)
\* and its result is the query evaluated against all m distributions,
\* whatever calls came before.
C3_BatchIndependentOfHistory ==
    (last.op \in Functionals /\ last.mode0 = "BATCH" /\ ~last.raised)
        => /\ last.sel0 = SliceNone
           /\ last.result = imp([Target EXCEPT !.cached_index_ = SliceNone], last.X)

\* C4: a query of exactly one point has the same outcome in BATCH and in
\* ELEMENT_WISE mode.
C4_ModesAgreeOnOnePoint ==
    (last.op \in Functionals /\ Len(last.X) = 1)
        => LET other == IF last.mode0 = "BATCH" THEN "ELEMENT_WISE" ELSE "BATCH"
               r     == Apply(last.op, [TargetBefore EXCEPT !.mode_ = other], last.X)
           IN  /\ r.raised = last.raised
               /\ r.result = last.result

\* C4 witness: a one-point ELEMENT_WISE query on more than one distribution returned
C4_Witness ==
    /\ last.op \in Functionals /\ Len(last.X) = 1 /\ ~last.raised
    /\ last.mode0 = "ELEMENT_WISE" /\ Target.vectorSize_ > 1
    /\ last.result.shape = <<Target.vectorSize_, 1>>

\* C5 (as stated): in ELEMENT_WISE mode every invocation of the
\* implementation (here: in a call that returns) runs with cached_index_
\* set to a single distribution position, for every n >= 1.
C5_SingleIndexEveryN ==
    (last.op \in Functionals /\ last.mode0 = "ELEMENT_WISE" /\ ~last.raised)
        => \A c \in 1..Len(last.calls) :
              last.calls[c].sel \in 0..(Target.vectorSize_ - 1)

\* C5 (amended): in ELEMENT_WISE mode, for a query of n > 1 points, the c-th
\* invocation of the implementation runs with cached_index_ = c - 1, a single
\* distribution position, and receives the points c-1, c-1+step, ...
C5_SingleIndexManyPoints ==
    (last.op \in Functionals /\ last.mode0 = "ELEMENT_WISE" /\ Len(last.X) > 1)
        => \A c \in 1..Len(last.calls) :
              /\ last.calls[c].sel = c - 1
              /\ last.calls[c].sel \in 0..(Target.vectorSize_ - 1)
              /\ get_cached_param([Target EXCEPT !.cached_index_ = last.calls[c].sel])
                    = <<Target.params[c]>>

\* C5 witness: an ELEMENT_WISE query of several points invoked the
\* implementation once per distribution
C5_Witness ==
    /\ last.op \in Functionals /\ last.mode0 = "ELEMENT_WISE" /\ ~last.raised
    /\ Len(last.X) > 1
    /\ Len(last.calls) = Target.vectorSize_
    /\ Len(last.calls) > 1

\* C6: the mode of an object changes only through setMode with a member of
\* Mode, to that member; setMode with any other value raises and leaves the
\* mode as it was.
C6_ModeChangesOnlyBySetMode ==
    [][ /\ \A o \in Live :
              objs'[o].mode_ # objs[o].mode_
                 => /\ last'.op = "setMode" /\ last'.obj = o
                    /\ last'.modeArg \in Mode
                    /\ objs'[o].mode_ = last'.modeArg
        /\ (last'.op = "setMode" /\ last'.modeArg \notin Mode)
              => /\ last'.raised
                 /\ objs'[last'.obj].mode_ = objs[last'.obj].mode_ ]_vars

\* C6 witness: setMode was called with a value that is not a Mode member
C6_Witness ==
    /\ last.op = "setMode" /\ last.modeArg = "NOT_A_MODE"
    /\ last.raised /\ Target.mode_ = "BATCH"

\* C7: pdf on a DISCRETE or UNDEFINED distribution and pmf on a CONTINUOUS
\* or UNDEFINED one raise the kind error before the implementation is
\* invoked, leaving selector and mode alone; on a MIXED distribution
\* neither pdf nor pmf raises the kind error.
C7_MeasureKindGating ==
    /\ (last.op = "pdf" /\ Target.dtype_ \in {"DISCRETE", "UNDEFINED"})
          => /\ last.raised /\ last.error = KindError("pdf")
             /\ last.calls = <<>>
             /\ Target.cached_index_ = last.sel0 /\ Target.mode_ = last.mode0
    /\ (last.op = "pmf" /\ Target.dtype_ \in {"CONTINUOUS", "UNDEFINED"})
          => /\ last.raised /\ last.error = KindError("pmf")
             /\ last.calls = <<>>
             /\ Target.cached_index_ = last.sel0 /\ Target.mode_ = last.mode0
    /\ (last.op \in {"pdf", "pmf"} /\ Target.dtype_ = "MIXED")
          => last.error # KindError(last.op)

\* C7 witness: pdf was refused on an UNDEFINED distribution in ELEMENT_WISE mode
C7_Witness ==
    /\ last.op = "pdf" /\ Target.dtype_ = "UNDEFINED"
    /\ last.mode0 = "ELEMENT_WISE" /\ last.raised

\* C8: a pdf, pmf or cdf query (past the kind check, on a distribution whose
\* implementation can evaluate the points) with a point the support
\* predicate rejects raises the out-of-support error and returns no result.
C8_OutOfSupportRejected ==
    (last.op \in Functionals /\ ~inSupport(Target.support_, last.X)
        /\ last.error # KindError(last.op)
        /\ ~impRaises(Target, last.X))
        => /\ last.raised
           /\ last.error = "X is outside permitted support"
           /\ last.result = NoResult

\* an out-of-range selector for a distribution of length len
OutOfRange(index, len) ==
    \/ index.kind = "int" /\ index.k >= len
    \/ index.kind = "slice" /\ index.stop # PyNone /\ index.stop > len

\* C9: __getitem__ with an integer k >= L or a slice whose stop exceeds L
\* raises "Selection is out of bounds", constructs no replica and leaves
\* every object as it was.
C9_SubsetBoundsChecked ==
    [][ (last'.op = "__getitem__"
            /\ OutOfRange(last'.index, objs[last'.obj].vectorSize_))
          => /\ last'.raised
             /\ last'.error = "Selection is out of bounds"
             /\ last'.created = 0
             /\ objs' = objs ]_vars

\* C9 witness: a slice whose stop exceeds the length was refused
C9_Witness ==
    /\ last.op = "__getitem__" /\ last.index.kind = "slice"
    /\ last.index.stop # PyNone /\ last.index.stop > Target.vectorSize_
    /\ last.raised

\* C10: a successful __getitem__ returns a new object over the sliced
\* parameters with cached_index_ = slice(None) and the default mode BATCH,
\* whatever the parent's mode and selector; the parent is unchanged, and any
\* other operation changes at most the object it is called on.
C10_SubsetIndependent ==
    [][ /\ (last'.op = "__getitem__" /\ ~last'.raised)
              => /\ last'.created = 1
                 /\ last'.replica.cached_index_ = SliceNone
                 /\ last'.replica.mode_ = "BATCH"
                 /\ last'.replica.params
                       = getSubset(objs[last'.obj].params, last'.index)
                 /\ objs'[last'.obj] = objs[last'.obj]
                 /\ last'.obj = 1 => (Len(objs') = 2 /\ objs'[2] = last'.replica)
        /\ last'.op # "__getitem__"
              => /\ Len(objs') = Len(objs)
                 /\ \A o \in Live : o # last'.obj => objs'[o] = objs[o] ]_vars

\* C10 witness: a replica in BATCH mode with selector slice(None) sits next
\* to its parent, which is in ELEMENT_WISE mode with a single position cached
C10_Witness ==
    /\ Len(objs) = 2
    /\ objs[1].mode_ = "ELEMENT_WISE" /\ objs[1].cached_index_ # SliceNone
    /\ last.op = "__getitem__" /\ last.obj = 1 /\ last.created = 1
    /\ objs[2].mode_ = "BATCH" /\ objs[2].cached_index_ = SliceNone

(***************************************************************************)
(* Table-shaped distributions: Laplace (skpro/distributions/laplace.py)    *)
(* and the i.i.d. wrapper IID (skpro/distributions/compose/_iid.py).       *)
(* In the specifications below `objs` holds the constructed object (at     *)
(* most one) and `last` the record of the last operation.                  *)
(***************************************************************************)

(* ---------------------------------------------------------------- bounds *)

\* largest number of rows of a parameter grid or index
MaxRows == 3

\* largest number of columns of a parameter grid or column index
MaxCols == 2

(* ----------------------------------------------------------------- arrays *)

\* a numpy array: its shape ((), (c,) or (r, c)) and its entries, row-major
Size(shape) ==
    IF Len(shape) = 0 THEN 1
    ELSE IF Len(shape) = 1 THEN shape[1] ELSE shape[1] * shape[2]

\* the array of the given shape with entries start, start + 1, ...
Ramp(shape, start) == [shape |-> shape, data |-> [k \in 1..Size(shape) |-> start + k - 1]]

\* the array of the given shape with every entry equal to v
Const(shape, v) == [shape |-> shape, data |-> [k \in 1..Size(shape) |-> v]]

ParamShapes ==
    {<<>>} \cup {<<c>> : c \in 1..MaxCols}
           \cup {<<r, c>> : r \in 1..MaxRows, c \in 1..MaxCols}

\* pd.Index objects, or None
NoneIndex == [given |-> FALSE, labels |-> <<>>]

RangeIndex(n) == [given |-> TRUE, labels |-> [i \in 1..n |-> i - 1]]

LabelIndex(n, base) == [given |-> TRUE, labels |-> [i \in 1..n |-> base + i]]

\* a shape seen as two-dimensional, the way numpy aligns shapes to the right
Pad2(shape) ==
    IF Len(shape) = 0 THEN <<1, 1>>
    ELSE IF Len(shape) = 1 THEN <<1, shape[1]>> ELSE shape

\* the common size of one dimension, 0 when two sizes other than 1 disagree
BroadcastDim(dims) ==
    LET big == dims \ {1}
    IN  IF big = {} THEN 1
        ELSE IF Cardinality(big) = 1 THEN CHOOSE d \in big : TRUE
        ELSE 0

\* the shape np.broadcast_arrays gives the arrays of these shapes;
\* ok is FALSE when it raises ValueError (shape mismatch)
BroadcastShape(shapes) ==
    LET nd == IF \E k \in 1..Len(shapes) : Len(shapes[k]) = 2 THEN 2
              ELSE IF \E k \in 1..Len(shapes) : Len(shapes[k]) = 1 THEN 1 ELSE 0
        r  == BroadcastDim({Pad2(shapes[k])[1] : k \in 1..Len(shapes)})
        c  == BroadcastDim({Pad2(shapes[k])[2] : k \in 1..Len(shapes)})
    IN  [ok    |-> r # 0 /\ c # 0,
         shape |-> IF nd = 0 THEN <<>> ELSE IF nd = 1 THEN <<c>> ELSE <<r, c>>]

\* array a broadcast to shape
BroadcastTo(a, shape) ==
    LET p == Pad2(a.shape)
        q == Pad2(shape)
    IN  [shape |-> shape,
         data  |-> [k \in 1..(q[1] * q[2]) |->
                      a.data[(IF p[1] = 1 THEN 0 ELSE (k - 1) \div q[2]) * p[2]
                             + (IF p[2] = 1 THEN 0 ELSE (k - 1) % q[2]) + 1]]]

NoArray == [shape |-> <<>>, data |-> <<>>]

\* pd.DataFrame(arr, index=index, columns=columns): a 1-D array is one
\* column; ok is FALSE when pandas raises because the shapes differ
DataFrame(arr, index, columns) ==
    LET shp == IF Len(arr.shape) = 1 THEN <<arr.shape[1], 1>> ELSE arr.shape
    IN  IF Len(arr.shape) = 0 \/ shp # <<Len(index.labels), Len(columns.labels)>>
        THEN [ok |-> FALSE, index |-> index, columns |-> columns, values |-> NoArray]
        ELSE [ok |-> TRUE, index |-> index, columns |-> columns,
              values |-> [shape |-> shp, data |-> arr.data]]

(* ---------------------------------------------------------------- Laplace *)

\* _get_bc_params that broadcasts mu and scale against each other only
Laplace_get_bc_params_paramsOnly(mu, scale, index, columns) ==
    LET bc == BroadcastShape(<<mu.shape, scale.shape>>)
    IN  IF bc.ok
        THEN [ok |-> TRUE, mu |-> BroadcastTo(mu, bc.shape),
              scale |-> BroadcastTo(scale, bc.shape)]
        ELSE [ok |-> FALSE, mu |-> NoArray, scale |-> NoArray]

\* Laplace._get_bc_params: mu and scale broadcast against each other and
\* against index (as a column) and columns (as a row) when they are given
Laplace_get_bc_params(mu, scale, index, columns) ==
    LET to_broadcast ==
            <<mu.shape, scale.shape>>
            \o (IF index.given THEN << <<Len(index.labels), 1>> >> ELSE <<>>)
            \o (IF columns.given THEN << <<Len(columns.labels)>> >> ELSE <<>>)
        bc == BroadcastShape(to_broadcast)
    IN  IF bc.ok
        THEN [ok |-> TRUE, mu |-> BroadcastTo(mu, bc.shape),
              scale |-> BroadcastTo(scale, bc.shape)]
        ELSE [ok |-> FALSE, mu |-> NoArray, scale |-> NoArray]

\* a distribution an IID wraps: scalar (ndim 0) or a grid of rows x cols
NoWrapped == [family |-> "", ndim |-> 0, rows |-> 0, cols |-> 0, loc |-> 0, spread |-> 0]

NoDistr ==
    [class |-> "", attrs |-> {}, mu |-> NoArray, scale |-> NoArray,
     bc_mu |-> NoArray, bc_scale |-> NoArray, index |-> NoneIndex, columns |-> NoneIndex,
     wrapped |-> NoWrapped, bc_cols |-> FALSE]

\* BaseDistribution.__init__(index, columns): stores the two indexes
BaseDistribution__init__(self, index, columns) ==
    [self EXCEPT !.index = index, !.columns = columns,
                 !.attrs = self.attrs \cup {"index", "columns"}]

\* Laplace.__init__: the error it raises ("" if none) and the object
Laplace__init__(mu, scale, index, columns) ==
    LET bc    == Laplace_get_bc_params(mu, scale, index, columns)
        shape == bc.mu.shape
        self  == [NoDistr EXCEPT !.class = "Laplace",
                                 !.attrs = {"mu", "scale", "index", "columns", "_mu", "_scale"},
                                 !.mu = mu, !.scale = scale,
                                 !.bc_mu = bc.mu, !.bc_scale = bc.scale]
    IN  IF ~bc.ok
        THEN [error |-> "ValueError: shape mismatch", self |-> NoDistr]
        ELSE IF ~index.given /\ Len(shape) < 1
        THEN [error |-> "IndexError: tuple index out of range", self |-> NoDistr]
        ELSE IF ~columns.given /\ Len(shape) < 2
        THEN [error |-> "IndexError: tuple index out of range", self |-> NoDistr]
        ELSE [error |-> "",
              self  |-> BaseDistribution__init__(self,
                            IF index.given THEN index ELSE RangeIndex(shape[1]),
                            IF columns.given THEN columns ELSE RangeIndex(shape[2]))]

\* x / sqrt(2), kept exact: n / sqrt(2)^rt2
DivSqrt2(x) == [n |-> x, rt2 |-> 1]

\* the square of n / sqrt(2)^rt2 as the fraction num / den
Square(v) == [num |-> v.n * v.n, den |-> 2 ^ v.rt2]

NoTable == [ok |-> FALSE, index |-> NoneIndex, columns |-> NoneIndex, values |-> NoArray]

\* Laplace.mean
Laplace_mean(self) == DataFrame(self.bc_mu, self.index, self.columns)

\* Laplace.var: (self._scale / sqrt(2)) as a DataFrame, squared
Laplace_var(self) ==
    LET df == DataFrame(self.bc_scale, self.index, self.columns)
    IN  IF ~df.ok THEN NoTable
        ELSE [ok |-> TRUE, index |-> df.index, columns |-> df.columns,
              values |-> [shape |-> df.values.shape,
                          data  |-> [k \in 1..Size(df.values.shape) |->
                                       Square(DivSqrt2(self.bc_scale.data[k]))]]]

Abs(a) == IF a >= 0 THEN a ELSE -a

Sign(a) == IF a > 0 THEN 1 ELSE IF a < 0 THEN -1 ELSE 0

\* a probability 0.5 + 0.5 * sgn * (1 - exp(-num / den)), kept exact
Prob(sgn, num, den) == [sgn |-> sgn, num |-> num, den |-> den]

\* Laplace.cdf at the table x (aligned with self): per cell
\* 0.5 + 0.5 * sign(x - mu) * (1 - exp(-|x - mu| / scale))
Laplace_cdf(self, x) ==
    LET bc    == BroadcastShape(<<x.values.shape, self.mu.shape, self.scale.shape>>)
        mu    == BroadcastTo(self.mu, x.values.shape)
        scale == BroadcastTo(self.scale, x.values.shape)
    IN  IF ~bc.ok \/ bc.shape # x.values.shape THEN NoTable
        ELSE [x EXCEPT !.values.data =
                [k \in 1..Len(x.values.data) |->
                    Prob(Sign(x.values.data[k] - mu.data[k]),
                         Abs(x.values.data[k] - mu.data[k]), scale.data[k])]]

\* sign(p - mu) for a probability 0 < p < 1 and an integer mu
SignProbMinus(p, mu) == IF mu <= 0 THEN 1 ELSE -1

\* log(1 - 2 * |p - 0.5|) = -num / den (0 when p = 0.5), as a fraction
LogTail(p) == [num |-> IF p.sgn = 0 THEN 0 ELSE -p.num, den |-> p.den]

\* Laplace.ppf at the table p: per cell
\* mu - scale * sign(p - mu) * log(1 - 2 * |p - 0.5|), as a fraction
Laplace_ppf(self, p) ==
    LET bc    == BroadcastShape(<<p.values.shape, self.mu.shape, self.scale.shape>>)
        mu    == BroadcastTo(self.mu, p.values.shape)
        scale == BroadcastTo(self.scale, p.values.shape)
    IN  IF ~bc.ok \/ bc.shape # p.values.shape THEN NoTable
        ELSE [p EXCEPT !.values.data =
                [k \in 1..Len(p.values.data) |->
                    LET sgn == SignProbMinus(p.values.data[k], mu.data[k])
                        log == LogTail(p.values.data[k])
                    IN  [num |-> mu.data[k] * log.den - scale.data[k] * sgn * log.num,
                         den |-> log.den]]]

(* -------------------------------------------------------------------- IID *)

\* the distributions handed to IID: a scalar one, or a grid of rows x cols
\* whose cells all have location loc and spread (sigma or scale) spread
Wrapped(family, ndim, rows, cols) ==
    [family |-> family, ndim |-> ndim, rows |-> rows, cols |-> cols,
     loc |-> 0, spread |-> 1]

WrappedDists ==
    {Wrapped(f, 0, 1, 1) : f \in {"Normal", "Laplace"}}
    \cup {Wrapped(f, 2, r, c) : f \in {"Normal", "Laplace"},
                                r \in 1..MaxRows, c \in 1..MaxCols}

\* IID.__init__ without the check of the column counts
IID__init__noColumnCheck(distribution, index, columns) ==
    LET dist_scalar == distribution.ndim = 0
        dist_cols   == RangeIndex(distribution.cols)
        bc_cols == dist_scalar \/ (distribution.cols = 1 /\ columns.given)
        self == [NoDistr EXCEPT
                    !.class = "IID",
                    !.attrs = {"distibution"} \cup (IF bc_cols THEN {"_bc_cols"} ELSE {}),
                    !.wrapped = distribution, !.bc_cols = bc_cols]
        index1 == IF ~dist_scalar /\ ~index.given THEN RangeIndex(distribution.rows)
                  ELSE IF dist_scalar /\ ~index.given THEN RangeIndex(1)
                  ELSE index
        columns1 == IF ~columns.given
                    THEN (IF dist_scalar THEN RangeIndex(1) ELSE dist_cols)
                    ELSE columns
    IN  IF ~dist_scalar /\ ~index.given /\ Len(index1.labels) # 1
        THEN [error |-> "AssertionError", self |-> NoDistr]
        ELSE [error |-> "", self |-> BaseDistribution__init__(self, index1, columns1)]

\* IID.__init__: the error it raises ("" if none) and the object. The `if`
\* of line 60 is read with line 61 as its body.
IID__init__(distribution, index, columns) ==
    LET dist_scalar == distribution.ndim = 0
        dist_cols   == RangeIndex(distribution.cols)
        bc_cols == dist_scalar \/ (distribution.cols = 1 /\ columns.given)
        self == [NoDistr EXCEPT
                    !.class = "IID",
                    !.attrs = {"distibution"} \cup (IF bc_cols THEN {"_bc_cols"} ELSE {}),
                    !.wrapped = distribution, !.bc_cols = bc_cols]
        index1 == IF ~dist_scalar /\ ~index.given THEN RangeIndex(distribution.rows)
                  ELSE IF dist_scalar /\ ~index.given THEN RangeIndex(1)
                  ELSE index
        columns1 == IF ~columns.given
                    THEN (IF dist_scalar THEN RangeIndex(1) ELSE dist_cols)
                    ELSE columns
    IN  IF ~dist_scalar /\ ~index.given /\ Len(index1.labels) # 1
        THEN [error |-> "AssertionError", self |-> NoDistr]
        ELSE IF ~dist_scalar /\ Len(dist_cols.labels) # 1
                /\ Len(dist_cols.labels) # Len(columns1.labels)
        THEN [error |-> "AssertionError", self |-> NoDistr]
        ELSE [error |-> "", self |-> BaseDistribution__init__(self, index1, columns1)]

\* the parameters of the constructor signature, by class
InitParams(class) ==
    IF class = "Laplace" THEN {"mu", "scale", "index", "columns"}
    ELSE {"distribution", "index", "columns"}

\* the names the parameter store of self holds: the distribution parameters
\* of the constructor that are attributes of self
ParamNames(self) == (InitParams(self.class) \ {"index", "columns"}) \cap self.attrs

\* self._bc_params[key]: the stored parameter broadcast to the grid of self
bc_params(self, key) ==
    IF key \notin ParamNames(self) THEN [ok |-> FALSE, arr |-> NoArray]
    ELSE [ok  |-> TRUE,
          arr |-> BroadcastTo(IF key = "mu" THEN self.mu ELSE self.scale,
                              <<Len(self.index.labels), Len(self.columns.labels)>>)]

IIDFunctionals ==
    {"mean", "var", "pdf", "log_pdf", "cdf", "ppf", "energy_self", "energy_x"}

\* the first key of _bc_params the private method of each functional reads
FirstKey(fn) == IF fn \in {"var", "energy_self"} THEN "sigma" ELSE "mu"

\* the closed form `form` at parameters (loc, spread) and argument x, unevaluated
Closed(form, loc, spread, x) == [form |-> form, loc |-> loc, spread |-> spread, x |-> x]

\* np.sum(arr, axis=1) kept as the row-wise sequences of the summands
SumAxis1(arr) ==
    [shape |-> <<arr.shape[1]>>,
     data  |-> [i \in 1..arr.shape[1] |->
                  [j \in 1..arr.shape[2] |-> arr.data[(i - 1) * arr.shape[2] + j]]]]

\* IID._mean, _var, _pdf, _log_pdf, _cdf, _ppf, _energy_self, _energy_x:
\* each reads mu and/or sigma from self._bc_params and applies the normal
\* closed form; the energies are summed over axis 1
IID_functional(self, fn, x) ==
    LET mu    == bc_params(self, "mu")
        sigma == bc_params(self, "sigma")
        first == bc_params(self, FirstKey(fn))
        need  == IF fn = "mean" THEN {mu}
                 ELSE IF fn \in {"var", "energy_self"} THEN {sigma} ELSE {mu, sigma}
        grid  == <<Len(self.index.labels), Len(self.columns.labels)>>
        cells == [shape |-> grid,
                  data  |-> [k \in 1..Size(grid) |->
                               Closed("Normal." \o fn,
                                      IF mu.ok THEN mu.arr.data[k] ELSE 0,
                                      IF sigma.ok THEN sigma.arr.data[k] ELSE 0, x)]]
    IN  IF \E b \in need : ~b.ok
        THEN [error  |-> "UnknownParameterError: "
                         \o (IF first.ok THEN "sigma" ELSE FirstKey(fn)),
              result |-> NoArray]
        ELSE [error  |-> "",
              result |-> IF fn \in {"energy_self", "energy_x"} THEN SumAxis1(cells)
                         ELSE cells]

(* ------------------------------------- state machine of the table objects *)

\* the record of an operation on a table-shaped distribution
DEvent(op) ==
    [op |-> op, fn |-> "", mu |-> NoArray, scale |-> NoArray,
     index |-> NoneIndex, columns |-> NoneIndex, wrapped |-> NoWrapped,
     x |-> NoTable, arg |-> 0, error |-> "", result |-> NoTable]

\* the scales a Laplace is constructed with
Scales == {1, 2}

\* the offsets from the mean at which cdf is queried
Deltas == {-2, -1, 1, 2}

\* the points at which a functional of IID is queried
Points == {0, 1}

IndexArgs == {NoneIndex} \cup {LabelIndex(n, 10) : n \in 1..MaxRows}

ColumnArgs == {NoneIndex} \cup {LabelIndex(c, 20) : c \in 1..MaxCols}

InitDistr ==
    /\ objs = <<>>
    /\ last = DEvent("start")

\* Laplace(mu, scale, index, columns)
LaplaceInit(mu, scale, index, columns) ==
    LET r == Laplace__init__(mu, scale, index, columns)
    IN  /\ last.op = "start"
        /\ objs' = IF r.error = "" THEN <<r.self>> ELSE <<>>
        /\ last' = [DEvent("Laplace.__init__") EXCEPT
                        !.mu = mu, !.scale = scale, !.index = index,
                        !.columns = columns, !.error = r.error]

IsLaplace == objs # <<>> /\ objs[1].class = "Laplace"

IsIID == objs # <<>> /\ objs[1].class = "IID"

\* pandas' message when the values do not fit index and columns
ShapeOfPassedValues == "ValueError: Shape of passed values"

LaplaceMean ==
    LET r == Laplace_mean(objs[1])
    IN  /\ IsLaplace
        /\ objs' = objs
        /\ last' = [DEvent("Laplace.mean") EXCEPT
                        !.error = IF r.ok THEN "" ELSE ShapeOfPassedValues,
                        !.result = IF r.ok THEN r ELSE NoTable]

LaplaceVar ==
    LET r == Laplace_var(objs[1])
    IN  /\ IsLaplace
        /\ objs' = objs
        /\ last' = [DEvent("Laplace.var") EXCEPT
                        !.error = IF r.ok THEN "" ELSE ShapeOfPassedValues,
                        !.result = r]

\* cdf at the table whose cells lie delta away from the mean
LaplaceCdf(delta) ==
    LET m == Laplace_mean(objs[1])
        x == [m EXCEPT !.values.data =
                 [k \in 1..Len(m.values.data) |-> m.values.data[k] + delta]]
        r == Laplace_cdf(objs[1], x)
    IN  /\ IsLaplace
        /\ m.ok
        /\ objs' = objs
        /\ last' = [DEvent("Laplace.cdf") EXCEPT
                        !.x = x, !.arg = delta,
                        !.error = IF r.ok THEN "" ELSE ShapeOfPassedValues,
                        !.result = r]

\* ppf at the table the cdf just returned
LaplacePpf ==
    LET r == Laplace_ppf(objs[1], last.result)
    IN  /\ IsLaplace
        /\ last.op = "Laplace.cdf"
        /\ last.error = ""
        /\ objs' = objs
        /\ last' = [DEvent("Laplace.ppf") EXCEPT
                        !.x = last.x, !.arg = last.arg,
                        !.error = IF r.ok THEN "" ELSE ShapeOfPassedValues,
                        !.result = r]

\* IID(distribution, index, columns)
IIDInit(distribution, index, columns) ==
    LET r == IID__init__(distribution, index, columns)
    IN  /\ last.op = "start"
        /\ objs' = IF r.error = "" THEN <<r.self>> ELSE <<>>
        /\ last' = [DEvent("IID.__init__") EXCEPT
                        !.wrapped = distribution, !.index = index,
                        !.columns = columns, !.error = r.error]

\* one of the private functionals of IID, at the point x in every cell
IIDFunctional(fn, x) ==
    LET r == IID_functional(objs[1], fn, x)
    IN  /\ IsIID
        /\ objs' = objs
        /\ last' = [DEvent("IID.functional") EXCEPT
                        !.fn = fn, !.arg = x, !.wrapped = objs[1].wrapped,
                        !.error = r.error, !.result = r.result]

NextDistr ==
    \/ \E ms \in ParamShapes, ss \in ParamShapes, s \in Scales,
          index \in IndexArgs, columns \in ColumnArgs :
            LaplaceInit(Ramp(ms, 0), Const(ss, s), index, columns)
    \/ LaplaceMean
    \/ LaplaceVar
    \/ \E delta \in Deltas : LaplaceCdf(delta)
    \/ LaplacePpf
    \/ \E d \in WrappedDists, index \in IndexArgs, columns \in ColumnArgs :
            IIDInit(d, index, columns)
    \/ \E fn \in IIDFunctionals, x \in Points : IIDFunctional(fn, x)

SpecDistr == InitDistr /\ [][NextDistr]_vars

(* ------------------------------------------------------- claims: Laplace *)

\* the grid of the constructed object: (len(index), len(columns))
Grid(self) == <<Len(self.index.labels), Len(self.columns.labels)>>

Constructed(op) == last.op = op /\ last.error = "" /\ objs # <<>>

\* C11: after every successful construction of a Laplace, _mu and _scale
\* both have shape exactly (len(index), len(columns)).
C11_BroadcastShapeIsGrid ==
    Constructed("Laplace.__init__") =>
        /\ objs[1].bc_mu.shape = Grid(objs[1])
        /\ objs[1].bc_scale.shape = Grid(objs[1])

\* the sizes the arguments give the rows and the columns of the grid
RowSizes(e) ==
    {Pad2(e.mu.shape)[1], Pad2(e.scale.shape)[1]}
    \cup (IF e.index.given THEN {Len(e.index.labels)} ELSE {})

ColSizes(e) ==
    {Pad2(e.mu.shape)[2], Pad2(e.scale.shape)[2]}
    \cup (IF e.columns.given THEN {Len(e.columns.labels)} ELSE {})

\* two sizes of one dimension differ and neither is 1
Disagree(sizes) == \E a \in sizes, b \in sizes : a # 1 /\ b # 1 /\ a # b

\* the one size other than 1 among agreeing sizes, 1 if there is none
Common(sizes) == IF sizes = {1} THEN 1 ELSE CHOOSE a \in sizes : a # 1

\* C12: a Laplace whose arguments agree is constructed, and an omitted index
\* (columns) is the range 0..n_rows-1 (0..n_cols-1) of the broadcast grid.
C12_OmittedIndexDefaultsToRange ==
    (/\ last.op = "Laplace.__init__"
     /\ ~Disagree(RowSizes(last)) /\ ~Disagree(ColSizes(last))
     /\ (~last.index.given \/ ~last.columns.given))
    => /\ last.error = ""
       /\ objs # <<>>
       /\ ~last.index.given => objs[1].index = RangeIndex(Common(RowSizes(last)))
       /\ ~last.columns.given => objs[1].columns = RangeIndex(Common(ColSizes(last)))

\* C13: constructing a Laplace whose arguments disagree in a dimension where
\* neither size is 1 raises a shape mismatch and leaves no object.
C13_MismatchFailsInConstructor ==
    (/\ last.op = "Laplace.__init__"
     /\ (Disagree(RowSizes(last)) \/ Disagree(ColSizes(last))))
    => /\ last.error = "ValueError: shape mismatch"
       /\ objs = <<>>

C13_Witness ==
    /\ last.op = "Laplace.__init__"
    /\ last.mu.shape = <<3, 2>>
    /\ last.scale.shape = <<2, 2>>
    /\ last.error = "ValueError: shape mismatch"
    /\ objs = <<>>

\* C14: var() is 2 * scale^2 in every cell of the grid, labelled with the
\* index and the columns of the distribution.
C14_VarIsTwoScaleSquared ==
    (last.op = "Laplace.var" /\ last.error = "") =>
        /\ last.result.index = objs[1].index
        /\ last.result.columns = objs[1].columns
        /\ last.result.values.shape = Grid(objs[1])
        /\ \A k \in 1..Len(last.result.values.data) :
              LET scale == BroadcastTo(objs[1].scale, Grid(objs[1])).data[k]
              IN  last.result.values.data[k].num
                    = 2 * scale * scale * last.result.values.data[k].den

\* C15: ppf(cdf(x)) = x in every cell, for x below and above mu.
C15_PpfInvertsCdf ==
    (last.op = "Laplace.ppf" /\ last.error = "") =>
        \A k \in 1..Len(last.result.values.data) :
            last.result.values.data[k].num
                = last.x.values.data[k] * last.result.values.data[k].den

(* ----------------------------------------------------------- claims: IID *)

\* the functional fn of the wrapped distribution at x, in closed form
WrappedValue(d, fn, x) == Closed(d.family \o "." \o fn, d.loc, d.spread, x)

\* C16: every functional of an IID wrapper equals the functional of the
\* wrapped distribution, broadcast over the grid of the wrapper (the
\* energies row by row over the columns).
C16_DelegatesToWrapped ==
    last.op = "IID.functional" =>
        /\ last.error = ""
        /\ \A k \in 1..Len(last.result.data) :
              IF last.fn \in {"energy_self", "energy_x"}
              THEN \A j \in 1..Len(last.result.data[k]) :
                      last.result.data[k][j] = WrappedValue(last.wrapped, last.fn, last.arg)
              ELSE last.result.data[k] = WrappedValue(last.wrapped, last.fn, last.arg)

\* C17: wrapping a non-scalar distribution of c_w columns while requesting
\* c_r columns, c_w # 1 and c_w # c_r, fails and produces no wrapper.
C17_ColumnMismatchFails ==
    (/\ last.op = "IID.__init__"
     /\ last.wrapped.ndim # 0
     /\ last.columns.given
     /\ last.wrapped.cols # 1
     /\ last.wrapped.cols # Len(last.columns.labels))
    => /\ last.error = "AssertionError"
       /\ objs = <<>>

C17_Witness ==
    /\ last.op = "IID.__init__"
    /\ last.wrapped.ndim = 2 /\ last.wrapped.rows = 1 /\ last.wrapped.cols = 2
    /\ last.index.given
    /\ last.columns.given /\ Len(last.columns.labels) = 1
    /\ last.error = "AssertionError"
    /\ objs = <<>>

\* C18: the energies of an IID of normal distributions have one entry per
\* row, the sum over the columns of the row of the per-cell energy.
C18_EnergyPerRow ==
    (/\ last.op = "IID.functional"
     /\ last.fn \in {"energy_self", "energy_x"}
     /\ last.wrapped.family = "Normal")
    => /\ last.error = ""
       /\ last.result.shape = <<Len(objs[1].index.labels)>>
       /\ \A i \in 1..Len(last.result.data) :
             last.result.data[i]
               = [j \in 1..Len(objs[1].columns.labels) |->
                    Closed("Normal." \o last.fn, last.wrapped.loc,
                           last.wrapped.spread, last.arg)]

\* C19: after construction every parameter of the constructor signature is
\* an attribute of the instance under the same name.
C19_InitParamsAreAttributes ==
    (objs # <<>> /\ last.op \in {"Laplace.__init__", "IID.__init__"}) =>
        InitParams(objs[1].class) \subseteq objs[1].attrs

(* --------------------------------------------------------- SklearnProbaReg *)

\* a pandas table seen through its labels: row index and columns
Frame(index, columns) == [index |-> index, columns |-> columns]

NoFrame == Frame(NoneIndex, NoneIndex)

\* the feature tables: rows labelled 0.. or 11.., columns labelled 31.. or 36..
XFrames ==
    {Frame(i, LabelIndex(c, b)) :
        i \in {RangeIndex(n) : n \in 1..MaxRows} \cup {LabelIndex(n, 10) : n \in 1..MaxRows},
        c \in 1..MaxCols, b \in {30, 35}}

\* the label tables for the rows of X: columns labelled 41..
YFrames(X) == {Frame(X.index, LabelIndex(c, 40)) : c \in 1..MaxCols}

\* SklearnProbaReg.__init__: only the estimator is stored
SklearnProbaReg__init__ == [fitted |-> FALSE, n_features |-> 0, n_targets |-> 0]

\* SklearnProbaReg._fit: the clone of the estimator is fitted to X and y
\* (a single-column y as a series); nothing else of y is kept
SklearnProbaReg_fit(self, X, y) ==
    [fitted |-> TRUE, n_features |-> Len(X.columns.labels),
     n_targets |-> Len(y.columns.labels)]

\* the standard deviations estimator_.predict(X, return_std=True) returns:
\* one per row, and per target if there are several
predict_std(self, X) ==
    Const(IF self.n_targets = 1 THEN <<Len(X.index.labels)>>
          ELSE <<Len(X.index.labels), self.n_targets>>, 1)

\* SklearnProbaReg._predict_var: the error it raises ("" if none) and the table
SklearnProbaReg_predict_var(self, X) ==
    LET y_std == DataFrame(predict_std(self, X), X.index, X.columns)
    IN  IF Len(X.columns.labels) # self.n_features
        THEN [error |-> "ValueError: X has a different number of features", result |-> NoTable]
        ELSE IF ~y_std.ok
        THEN [error |-> ShapeOfPassedValues, result |-> NoTable]
        ELSE [error |-> "", result |-> y_std]

REvent(op) == [op |-> op, X |-> NoFrame, y |-> NoFrame, error |-> "", result |-> NoTable]

InitReg ==
    /\ objs = <<SklearnProbaReg__init__>>
    /\ last = REvent("__init__")

\* fit(X, y)
Fit(X, y) ==
    /\ objs' = <<SklearnProbaReg_fit(objs[1], X, y)>>
    /\ last' = [REvent("fit") EXCEPT !.X = X, !.y = y]

\* predict_var(X) on the fitted regressor; y stays the y of the last fit
PredictVar(X) ==
    LET r == SklearnProbaReg_predict_var(objs[1], X)
    IN  /\ objs[1].fitted
        /\ objs' = objs
        /\ last' = [REvent("predict_var") EXCEPT
                        !.X = X, !.y = last.y, !.error = r.error, !.result = r.result]

NextReg ==
    \/ \E X \in XFrames : \E y \in YFrames(X) : Fit(X, y)
    \/ \E X \in XFrames : PredictVar(X)

SpecReg == InitReg /\ [][NextReg]_vars

\* C20: the table _predict_var(X) returns after fit(X_train, y) has the row
\* index of X and the column names of y.
C20_VarColumnsAreThoseOfY ==
    (last.op = "predict_var" /\ last.error = "") =>
        /\ last.result.index = last.X.index
        /\ last.result.columns = last.y.columns

(* ------------------------------------- claims: DistributionBase, continued *)

\* C23: a distribution is in ELEMENT_WISE mode after construction only if
\* ELEMENT_WISE was the mode argument of the constructor; a value that is
\* not a Mode member never yields an ELEMENT_WISE distribution.
C23_ElementWiseOnlyIfSupplied ==
    (last.op = "__init__" /\ objs[1].mode_ = "ELEMENT_WISE")
        => last.modeArg = "ELEMENT_WISE"

\* a slice within the length len: its stop is None or at most len
InRange(index, len) ==
    /\ index.kind = "slice"
    /\ index.stop = PyNone \/ index.stop <= len

\* C24: __getitem__ with a slice whose stop is at most L (stop = L included)
\* or None, selecting at least one distribution, returns the distribution
\* over the selected range instead of raising.
C24_InRangeSliceSucceeds ==
    (/\ last.op = "__getitem__"
     /\ InRange(last.index, objs[last.obj].vectorSize_)
     /\ Len(getSubset(objs[last.obj].params, last.index)) > 0)
    => /\ ~last.raised
       /\ last.created = 1
       /\ last.replica.params = getSubset(objs[last.obj].params, last.index)

(* ------------------------------------------------- claims: IID, continued *)

\* C29: constructing an IID around a non-scalar distribution with more than
\* one row fails, whether index is omitted or passed.
C29_MultiRowRejected ==
    (/\ last.op = "IID.__init__"
     /\ last.wrapped.ndim # 0
     /\ last.wrapped.rows > 1)
    => /\ last.error # ""
       /\ objs = <<>>

(***************************************************************************)
(* The mtype checks of skpro/datatypes/_check.py. In the specification     *)
(* below objs[1] is the state of the module: the global check_dict, the    *)
(* number of crawls made by generate_check_dict, and what a crawl finds.   *)
(***************************************************************************)

\* the most crawls of generate_check_dict in one behaviour
MaxCrawls == 3

\* None, where a string is expected
NoneStr == "<None>"

\* the registered mtypes and their scitypes
MTypes == {"m1", "m2", "m3"}

mtype_to_scitype(m) == IF m = "m3" THEN "Proba" ELSE "Table"

\* the keys (mtype, scitype) a crawl finds when the checkers are importable
FullRegistry == {<<m, mtype_to_scitype(m)>> : m \in MTypes}

\* generate_check_dict: the check of every datatype class found, by key
generate_check_dict(mod) == mod.available

\* get_check_dict that crawls on every request
get_check_dict_always(mod) ==
    [mod EXCEPT !.check_dict = mod.check_dict \cup generate_check_dict(mod),
                !.crawls = mod.crawls + 1]

\* get_check_dict: fills the global check_dict when it is empty
get_check_dict(mod) ==
    IF Cardinality(mod.check_dict) = 0
    THEN [mod EXCEPT !.check_dict = mod.check_dict \cup generate_check_dict(mod),
                     !.crawls = mod.crawls + 1]
    ELSE mod

\* _check_scitype_valid(scitype): the module afterwards and the error raised
check_scitype_valid(mod, scitype) ==
    LET mod1 == get_check_dict(mod)
        valid_scitypes == {k[2] : k \in mod1.check_dict}
    IN  [mod   |-> mod1,
         error |-> IF scitype = NoneStr
                   THEN "TypeError: scitype should be a str"
                   ELSE IF scitype \notin valid_scitypes
                   THEN "TypeError: " \o scitype \o " is not a supported scitype"
                   ELSE ""]

\* _coerce_list_of_str: a str becomes the list of it
coerce_list_of_str(arg) == arg.list

\* _metadata_requested(return_metadata): False asks for none; True, a str or
\* a list (also the empty list) ask for metadata
metadata_requested(return_metadata) == return_metadata # "False"

\* the values of msg: None, a str, a list of str, a dict from mtype to str
NoMsg == [kind |-> "None", items |-> <<>>]

MsgOf(m) == [kind |-> "str", items |-> <<m>>]

NoMetadata == [given |-> FALSE, mtype |-> "", scitype |-> ""]

\* what a call returns or raises; bare is TRUE when only `valid` is returned
Outcome == [raised |-> FALSE, error |-> "", bare |-> TRUE, valid |-> FALSE,
            msg |-> NoMsg, metadata |-> NoMetadata]

Raises(error) == [Outcome EXCEPT !.raised = TRUE, !.error = error]

\* _ret(valid, msg, metadata, return_metadata)
ret(valid, msg, metadata, return_metadata) ==
    IF metadata_requested(return_metadata)
    THEN [Outcome EXCEPT !.bare = FALSE, !.valid = valid, !.msg = msg,
                         !.metadata = metadata]
    ELSE [Outcome EXCEPT !.valid = valid]

\* check_dict[key](obj, ...): obj passes the checks of the mtypes in obj.passes
check_passed(obj, m) == m \in obj.passes

\* the messages of the failed checks, in the order of the mtypes checked
RECURSIVE Failed(_, _)
Failed(obj, ms) ==
    IF ms = <<>> THEN <<>>
    ELSE (IF check_passed(obj, Head(ms)) THEN <<>> ELSE <<Head(ms)>>)
         \o Failed(obj, Tail(ms))

RECURSIVE Found(_, _)
Found(obj, ms) ==
    IF ms = <<>> THEN <<>>
    ELSE (IF check_passed(obj, Head(ms)) THEN <<Head(ms)>> ELSE <<>>)
         \o Found(obj, Tail(ms))

\* check_is_mtype: the module afterwards and the outcome
check_is_mtype(mod, obj, mtypeArg, scitype, return_metadata, msg_return_dict) ==
    LET ms     == coerce_list_of_str(mtypeArg)
        sv     == check_scitype_valid(mod, scitype)
        mod1   == IF scitype = NoneStr THEN mod ELSE sv.mod
        sci(m) == IF scitype = NoneStr THEN mtype_to_scitype(m) ELSE scitype
        found_mtype == Found(obj, ms)
        failed == Failed(obj, ms)
        msg    == IF ~metadata_requested(return_metadata)
                  THEN [kind |-> msg_return_dict, items |-> <<>>]
                  ELSE [kind |-> msg_return_dict, items |-> failed]
    IN  IF msg_return_dict \notin {"list", "dict"}
        THEN [mod |-> mod,
              out |-> Raises("ValueError: msg_return_dict must be 'list' or 'dict'")]
        ELSE IF scitype # NoneStr /\ sv.error # ""
        THEN [mod |-> mod1, out |-> Raises(sv.error)]
        ELSE IF \E k \in 1..Len(ms) : <<ms[k], sci(ms[k])>> \notin mod1.check_dict
        THEN [mod |-> mod1, out |-> Raises("TypeError: no check defined")]
        ELSE IF Len(found_mtype) > 1
        THEN [mod |-> mod1, out |-> Raises("TypeError: more than one mtype identified")]
        ELSE IF Len(found_mtype) = 1
        THEN [mod |-> mod1,
              out |-> ret(TRUE, NoMsg,
                          [given |-> TRUE, mtype |-> found_mtype[1],
                           scitype |-> sci(found_mtype[1])],
                          return_metadata)]
        ELSE IF Len(msg.items) = 1 /\ msg.kind = "dict"
        THEN [mod |-> mod1, out |-> Raises("KeyError: 0")]
        ELSE [mod |-> mod1,
              out |-> ret(FALSE,
                          IF Len(msg.items) = 1 THEN MsgOf(msg.items[1]) ELSE msg,
                          NoMetadata, return_metadata)]

\* mtype(obj, as_scitype): the module afterwards and the outcome, whose
\* metadata.mtype is the inferred mtype. The keys are read from the global
\* check_dict after the validation of as_scitype, if there is one; every
\* inner check_is_mtype then finds check_dict populated.
mtype(mod, obj, as_scitype) ==
    LET sv   == check_scitype_valid(mod, as_scitype)
        mod1 == IF as_scitype = NoneStr THEN mod ELSE sv.mod
        m_plus_scitypes ==
            {k \in mod1.check_dict : as_scitype = NoneStr \/ k[2] = as_scitype}
        res(k) == check_is_mtype(mod1, obj, [str |-> TRUE, list |-> <<k[1]>>],
                                 k[2], "[]", "list").out
        mtypes_positive == {k \in m_plus_scitypes : res(k).valid}
    IN  IF as_scitype # NoneStr /\ sv.error # ""
        THEN [mod |-> mod1, out |-> Raises(sv.error)]
        ELSE IF Cardinality(mtypes_positive) > 1
        THEN [mod |-> mod1, out |-> Raises("TypeError: more than one mtype identified")]
        ELSE IF Cardinality(mtypes_positive) < 1
        THEN [mod |-> mod1,
              out |-> Raises("TypeError: No valid mtype could be identified")]
        ELSE [mod |-> mod1,
              out |-> [Outcome EXCEPT
                          !.valid = TRUE,
                          !.metadata = [given |-> TRUE,
                                        mtype |-> (CHOOSE k \in mtypes_positive : TRUE)[1],
                                        scitype |-> ""]]]

\* check_is_scitype(obj, scitype) with return_metadata = False
check_is_scitype(mod, obj, scitype) ==
    LET sv   == check_scitype_valid(mod, scitype)
        keys == {k \in sv.mod.check_dict : k[2] = scitype}
        found_mtype == {k \in keys : check_passed(obj, k[1])}
    IN  IF sv.error # ""
        THEN [mod |-> sv.mod, out |-> Raises(sv.error)]
        ELSE IF Cardinality(found_mtype) > 1
        THEN [mod |-> sv.mod, out |-> Raises("TypeError: more than one mtype identified")]
        ELSE [mod |-> sv.mod, out |-> ret(Cardinality(found_mtype) = 1, NoMsg, NoMetadata, "False")]

(* ------------------------------------------ state machine of the checks *)

\* the objects checked, by the mtypes whose check they pass
CheckedObjects == {[passes |-> ps] : ps \in {{}, {"m1"}, {"m3"}, {"m1", "m2"}}}

\* the mtype argument: a str or a list of str
MtypeArgs ==
    {[str |-> TRUE, list |-> <<m>>] : m \in MTypes}
    \cup {[str |-> FALSE, list |-> l] : l \in {<<"m1">>, <<"m2", "m3">>, <<"m1", "m2", "m3">>}}

ScitypeArgs == {NoneStr, "Table", "Proba", "Series"}

ReturnMetadataArgs == {"False", "True", "[]"}

MsgReturnDictArgs == {"list", "dict", "tuple"}

NoMtypeArg == [str |-> TRUE, list |-> <<>>]

CEvent(op) ==
    [op |-> op, obj |-> [passes |-> {}], mtype |-> NoMtypeArg, scitype |-> NoneStr,
     return_metadata |-> "False", msg_return_dict |-> "dict", out |-> Outcome,
     result |-> {}]

\* the module after import: check_dict = {}; a crawl will find the checkers
\* (or none, when nothing is importable)
InitCheck ==
    \E available \in {{}, FullRegistry} :
        /\ objs = <<[check_dict |-> {}, crawls |-> 0, available |-> available]>>
        /\ last = CEvent("import")

CanCrawl == objs[1].crawls < MaxCrawls

GetCheckDict ==
    /\ CanCrawl
    /\ objs' = <<get_check_dict(objs[1])>>
    /\ last' = [CEvent("get_check_dict") EXCEPT !.result = get_check_dict(objs[1]).check_dict]

CheckIsMtype(obj, mtypeArg, scitype, return_metadata, msg_return_dict) ==
    LET r == check_is_mtype(objs[1], obj, mtypeArg, scitype, return_metadata,
                            msg_return_dict)
    IN  /\ CanCrawl
        /\ objs' = <<r.mod>>
        /\ last' = [CEvent("check_is_mtype") EXCEPT
                        !.obj = obj, !.mtype = mtypeArg, !.scitype = scitype,
                        !.return_metadata = return_metadata,
                        !.msg_return_dict = msg_return_dict, !.out = r.out]

MtypeOf(obj, as_scitype) ==
    LET r == mtype(objs[1], obj, as_scitype)
    IN  /\ CanCrawl
        /\ objs' = <<r.mod>>
        /\ last' = [CEvent("mtype") EXCEPT
                        !.obj = obj, !.scitype = as_scitype, !.out = r.out]

CheckIsScitype(obj, scitype) ==
    LET r == check_is_scitype(objs[1], obj, scitype)
    IN  /\ CanCrawl
        /\ objs' = <<r.mod>>
        /\ last' = [CEvent("check_is_scitype") EXCEPT
                        !.obj = obj, !.scitype = scitype, !.out = r.out]

NextCheck ==
    \/ GetCheckDict
    \/ \E obj \in CheckedObjects, mtypeArg \in MtypeArgs, scitype \in ScitypeArgs,
          return_metadata \in ReturnMetadataArgs, msg_return_dict \in MsgReturnDictArgs :
            CheckIsMtype(obj, mtypeArg, scitype, return_metadata, msg_return_dict)
    \/ \E obj \in CheckedObjects, as_scitype \in ScitypeArgs : MtypeOf(obj, as_scitype)
    \/ \E obj \in CheckedObjects, scitype \in ScitypeArgs \ {NoneStr} :
            CheckIsScitype(obj, scitype)

SpecCheck == InitCheck /\ [][NextCheck]_vars

(* --------------------------------------------------------- claims: checks *)

\* the scitype a listed mtype is checked as in the last call
ScitypeOf(m) == IF last.scitype = NoneStr THEN mtype_to_scitype(m) ELSE last.scitype

\* the last call was check_is_mtype with arguments for which every listed
\* mtype has a check in the registry
AllChecked ==
    /\ last.op = "check_is_mtype"
    /\ last.msg_return_dict \in {"list", "dict"}
    /\ \A k \in 1..Len(last.mtype.list) :
          <<last.mtype.list[k], ScitypeOf(last.mtype.list[k])>> \in objs[1].check_dict

\* the listed mtypes whose check the object passes
Passing == {k \in 1..Len(last.mtype.list) : last.mtype.list[k] \in last.obj.passes}

\* C21: check_is_mtype reports valid = True (with mtype and scitype in the
\* metadata, if requested) when exactly one check passes, valid = False when
\* none passes, and raises TypeError when more than one passes.
C21_ThreeOutcomes ==
    AllChecked =>
        /\ Cardinality(Passing) = 1 =>
              /\ ~last.out.raised /\ last.out.valid
              /\ metadata_requested(last.return_metadata) =>
                    LET m == last.mtype.list[CHOOSE k \in Passing : TRUE]
                    IN  last.out.metadata = [given |-> TRUE, mtype |-> m,
                                             scitype |-> ScitypeOf(m)]
        /\ Cardinality(Passing) = 0 => ~last.out.raised /\ ~last.out.valid
        /\ Cardinality(Passing) > 1 =>
              /\ last.out.raised
              /\ last.out.error = "TypeError: more than one mtype identified"

\* C22: with one mtype given as a str, metadata requested and the check
\* failing, check_is_mtype returns (False, msg, None) with msg the message
\* of that mtype, for msg_return_dict "list" and "dict" alike.
C22_SingleFailureMessage ==
    (/\ AllChecked
     /\ last.mtype.str
     /\ metadata_requested(last.return_metadata)
     /\ Passing = {})
    => /\ ~last.out.raised
       /\ ~last.out.bare /\ ~last.out.valid
       /\ last.out.msg = MsgOf(last.mtype.list[1])
       /\ last.out.metadata = NoMetadata

\* C25: when the crawl finds checkers, generate_check_dict runs at most once,
\* on a request that finds check_dict empty; afterwards check_dict stays as
\* it is and get_check_dict returns it.
C25_CrawlAtMostOnce ==
    [][ objs[1].available # {} =>
          /\ objs'[1].crawls > objs[1].crawls =>
                objs[1].crawls = 0 /\ objs[1].check_dict = {}
          /\ objs[1].check_dict # {} => objs'[1].check_dict = objs[1].check_dict
          /\ last'.op = "get_check_dict" =>
                last'.result = objs'[1].check_dict /\ last'.result # {} ]_vars

C25_Witness ==
    /\ last.op = "get_check_dict"
    /\ objs[1].available # {}
    /\ objs[1].crawls = 1
    /\ last.result = FullRegistry

\* C26: check_is_mtype with scitype omitted and mtype with as_scitype
\* omitted give the outcome they give on the populated registry, whether or
\* not get_check_dict was triggered before.
C26_OutcomeIndependentOfPriming ==
    /\ (last.op = "check_is_mtype" /\ last.scitype = NoneStr) =>
          last.out = check_is_mtype(get_check_dict(objs[1]), last.obj, last.mtype,
                                    last.scitype, last.return_metadata,
                                    last.msg_return_dict).out
    /\ (last.op = "mtype" /\ last.scitype = NoneStr) =>
          last.out = mtype(get_check_dict(objs[1]), last.obj, last.scitype).out

(***************************************************************************)
(* BaseProbaMetric of skpro/metrics/base.py, for a class that overrides    *)
(* neither _evaluate nor _evaluate_by_index. objs[1] is the metric object  *)
(* together with the call stack of the running evaluate call and the       *)
(* signal (call, return value or exception) passing between its frames.    *)
(***************************************************************************)

\* the recursion limit, in frames of evaluate, _evaluate, _evaluate_by_index
MaxDepth == 6

\* None as the multioutput argument
MultioutputStrs == {"raw_values", "uniform_average", "variance_weighted"}

MustImplement == "RecursionError: Must implement one of _evaluate or _evaluate_by_index"

Signal(kind, value) == [kind |-> kind, value |-> value]

Idle == Signal("idle", "")

\* BaseProbaMetric.__init__
BaseProbaMetric__init__(multioutput, score_average) ==
    [multioutput |-> multioutput, score_average |-> score_average,
     running |-> "", stack |-> <<>>, signal |-> Idle]

\* the method a frame calls: evaluate -> _evaluate -> _evaluate_by_index -> evaluate
Callee(frame) ==
    IF frame = "evaluate" THEN "_evaluate"
    ELSE IF frame = "_evaluate" THEN "_evaluate_by_index"
    ELSE "evaluate"

\* evaluate, after its call of self._evaluate gave sig: the averaging of out
\* (out.mean, out.groupby) fails on None; without a matching branch out is
\* returned as it is
evaluate(self, multioutput, sig) ==
    IF sig.kind = "raise" THEN sig
    ELSE IF sig.value = "None"
            /\ \/ self.score_average /\ multioutput \in {"uniform_average", "raw_values"}
               \/ ~self.score_average /\ multioutput = "uniform_average"
    THEN Signal("raise", "AttributeError: 'NoneType' object has no attribute")
    ELSE sig

\* _evaluate, after its call of self._evaluate_by_index gave sig: a
\* RecursionError is caught, a new one is constructed but not raised, and
\* the method falls off its end
evaluate_inner(self, multioutput, sig) ==
    IF sig.kind = "raise" /\ sig.value \in {"RecursionError", MustImplement}
    THEN Signal("return", "None")
    ELSE sig

\* _evaluate_by_index, after its call x_bar = self.evaluate(...) gave sig: a
\* RecursionError is raised anew with the message; n * x_bar fails on None
evaluate_by_index_inner(self, multioutput, sig) ==
    IF sig.kind = "raise" /\ sig.value \in {"RecursionError", MustImplement}
    THEN Signal("raise", MustImplement)
    ELSE IF sig.kind = "raise" THEN sig
    ELSE IF sig.value = "None"
    THEN Signal("raise", "TypeError: unsupported operand type(s) for *: 'int' and 'NoneType'")
    ELSE sig

\* what a frame passes to its caller when its callee gave sig
Resume(self, frame, sig) ==
    IF frame = "evaluate" THEN evaluate(self, self.running, sig)
    ELSE IF frame = "_evaluate" THEN evaluate_inner(self, self.running, sig)
    ELSE evaluate_by_index_inner(self, self.running, sig)

\* the multioutput argument of the validators: a str, None, or weights
MultioutputArg(kind, value, len) == [kind |-> kind, value |-> value, len |-> len]

MultioutputArgs ==
    {MultioutputArg("str", v, 0) : v \in MultioutputStrs \cup {"median"}}
    \cup {MultioutputArg("None", "", 0)}
    \cup {MultioutputArg("array", "", l) : l \in 1..2}

\* _check_consistent_input: the error it raises for multioutput, "" if none
check_consistent_input(multioutput, n_outputs) ==
    IF multioutput.kind = "str"
    THEN IF multioutput.value \notin {"raw_values", "uniform_average", "variance_weighted"}
         THEN "ValueError: Allowed 'multioutput' string values are"
         ELSE ""
    ELSE IF multioutput.kind # "None"
    THEN IF n_outputs = 1
         THEN "ValueError: Custom weights are useful only in multi-output case."
         ELSE IF n_outputs # multioutput.len
         THEN "ValueError: There must be equally many custom weights"
         ELSE ""
    ELSE ""

\* _handle_multioutput: the error it raises for multioutput, "" if none
handle_multioutput(multioutput) ==
    IF multioutput.kind = "str"
       /\ multioutput.value \notin {"raw_values", "uniform_average"}
    THEN "ValueError: multioutput is expected to be 'raw_values' or 'uniform_average'"
    ELSE ""

MEvent(op) ==
    [op |-> op, multioutput |-> MultioutputArg("None", "", 0), n_outputs |-> 0,
     error |-> "", outcome |-> Idle]

InitMetric ==
    \E multioutput \in MultioutputStrs, score_average \in BOOLEAN :
        /\ objs = <<BaseProbaMetric__init__(multioutput, score_average)>>
        /\ last = MEvent("__init__")

\* evaluate(y_true, y_pred, multioutput) is called: _check_ys puts
\* self.multioutput for None
Evaluate(multioutput) ==
    /\ objs[1].stack = <<>> /\ objs[1].signal = Idle
    /\ objs' = <<[objs[1] EXCEPT
                    !.running = IF multioutput.kind = "None" THEN objs[1].multioutput
                                ELSE multioutput.value,
                    !.stack = <<"evaluate">>, !.signal = Signal("call", "")]>>
    /\ last' = [MEvent("evaluate") EXCEPT !.multioutput = multioutput]

\* the top frame calls the next method
Descend ==
    /\ objs[1].signal.kind = "call"
    /\ Len(objs[1].stack) < MaxDepth
    /\ objs' = <<[objs[1] EXCEPT
                    !.stack = Append(@, Callee(objs[1].stack[Len(objs[1].stack)]))]>>
    /\ last' = last

\* the interpreter raises RecursionError in the top frame, up to two frames
\* below the limit when the calls into pandas use up the rest: in evaluate and
\* in _evaluate_by_index before its try it propagates as it is, in _evaluate
\* and in _evaluate_by_index inside the try it meets the handler
StackOverflow(inTry) ==
    LET top == objs[1].stack[Len(objs[1].stack)]
        sig == Signal("raise", "RecursionError")
    IN  /\ objs[1].signal.kind = "call"
        /\ Len(objs[1].stack) >= MaxDepth - 2
        /\ objs' = <<[objs[1] EXCEPT
                        !.stack = SubSeq(@, 1, Len(@) - 1),
                        !.signal = IF top = "evaluate" THEN sig
                                   ELSE IF top = "_evaluate"
                                   THEN evaluate_inner(objs[1], objs[1].running, sig)
                                   ELSE IF inTry
                                   THEN evaluate_by_index_inner(objs[1], objs[1].running, sig)
                                   ELSE sig]>>
        /\ last' = last

\* the top frame receives what its callee returned or raised and finishes
Unwind ==
    LET top == objs[1].stack[Len(objs[1].stack)]
    IN  /\ objs[1].signal.kind \in {"raise", "return"}
        /\ objs[1].stack # <<>>
        /\ objs' = <<[objs[1] EXCEPT
                        !.stack = SubSeq(@, 1, Len(@) - 1),
                        !.signal = Resume(objs[1], top, objs[1].signal)]>>
        /\ last' = last

\* the outermost evaluate has finished: the caller sees its outcome
Finish ==
    /\ objs[1].signal.kind \in {"raise", "return"}
    /\ objs[1].stack = <<>>
    /\ objs' = <<[objs[1] EXCEPT !.signal = Idle, !.running = ""]>>
    /\ last' = [MEvent("evaluate returned") EXCEPT
                    !.multioutput = last.multioutput, !.outcome = objs[1].signal]

CheckConsistentInput(multioutput, n_outputs) ==
    /\ objs[1].stack = <<>> /\ objs[1].signal = Idle
    /\ objs' = objs
    /\ last' = [MEvent("_check_consistent_input") EXCEPT
                    !.multioutput = multioutput, !.n_outputs = n_outputs,
                    !.error = check_consistent_input(multioutput, n_outputs)]

\* the aggregation step, with the multioutput that passed the validation
HandleMultioutput ==
    /\ last.op = "_check_consistent_input"
    /\ last.error = ""
    /\ objs' = objs
    /\ last' = [MEvent("_handle_multioutput") EXCEPT
                    !.multioutput = last.multioutput, !.n_outputs = last.n_outputs,
                    !.error = handle_multioutput(last.multioutput)]

NextMetric ==
    \/ \E multioutput \in {a \in MultioutputArgs : a.kind = "None"
                              \/ (a.kind = "str" /\ a.value \in MultioutputStrs)} :
          Evaluate(multioutput)
    \/ Descend
    \/ \E inTry \in BOOLEAN : StackOverflow(inTry)
    \/ Unwind
    \/ Finish
    \/ \E multioutput \in MultioutputArgs, n_outputs \in 1..2 :
          CheckConsistentInput(multioutput, n_outputs)
    \/ HandleMultioutput

SpecMetric == InitMetric /\ [][NextMetric]_vars

(* -------------------------------------------------------- claims: metrics *)

\* C27: evaluate of a class that overrides neither _evaluate nor
\* _evaluate_by_index ends by raising RecursionError with the message "Must
\* implement one of _evaluate or _evaluate_by_index"; it returns no value
\* and raises no other error.
C27_RaisesMustImplement ==
    last.op = "evaluate returned" => last.outcome = Signal("raise", MustImplement)

\* C28: every multioutput string accepted by _check_consistent_input is
\* accepted by _handle_multioutput.
C28_ValidatorsAgree ==
    (last.op = "_handle_multioutput" /\ last.multioutput.kind = "str")
        => last.error = ""

(***************************************************************************)
(* _LifelinesAdapter of skpro/survival/adapters/lifelines.py. objs[1] is   *)
(* the adapter; the fitted lifelines estimator is represented by the       *)
(* survival function it predicts.                                          *)
(***************************************************************************)

\* the largest number of time points of a predicted survival function
MaxTimes == 3

\* entry (i, j) of a two-dimensional array
Cell(arr, i, j) == arr.data[(i - 1) * arr.shape[2] + j]

\* what lifelines_est.predict_survival_function(X) can return for T time
\* points and n rows of X: a table with one row per time point, labelled
\* 1..T, and one column per row of X; every column starts at 2 * T and
\* drops by 1 or 2 from one time point to the next
SurvivalFunctions(T, X) ==
    LET n == Len(X.index.labels)
    IN  {[ok |-> TRUE, index |-> LabelIndex(T, 0), columns |-> X.index,
          values |-> [shape |-> <<T, n>>,
                      data |-> [k \in 1..(T * n) |->
                                  LET t == ((k - 1) \div n) + 1
                                      j == ((k - 1) % n) + 1
                                      RECURSIVE fallen(_)
                                      fallen(s) == IF s = 0 THEN 0
                                                   ELSE drops[<<s, j>>] + fallen(s - 1)
                                  IN  2 * T - fallen(t - 1)]]] :
         drops \in [(1..(T - 1)) \X (1..n) -> {1, 2}]}

\* index[:-1]
AllButLast(index) ==
    [given |-> TRUE, labels |-> SubSeq(index.labels, 1, Len(index.labels) - 1)]

\* pd.MultiIndex.from_product([first, range(nt)]).swaplevel(): the pairs
\* (label of first, i) with i running fastest, and then the two levels of
\* every pair exchanged
from_product_swaplevel(first, nt) ==
    [given |-> TRUE,
     labels |-> [k \in 1..(Len(first.labels) * nt) |->
                   <<(k - 1) % nt, first.labels[((k - 1) \div nt) + 1]>>]]

\* np.repeat(a, repeats): every element repeats times in a row
repeat(a, repeats) ==
    [shape |-> <<Len(a) * repeats>>,
     data |-> [k \in 1..(Len(a) * repeats) |-> a[((k - 1) \div repeats) + 1]]]

\* -np.diff(a, axis=1).flatten(): differences between neighbouring columns
\* of a, row by row
neg_diff_flatten(a) ==
    LET r == a.shape[1]
        c == a.shape[2] - 1
    IN  [shape |-> <<r * c>>,
         data |-> [k \in 1..(r * c) |->
                     LET i == ((k - 1) \div c) + 1
                         j == ((k - 1) % c) + 1
                     IN  -(Cell(a, i, j + 1) - Cell(a, i, j))]]

\* pd.Series(data, index=index)
Series(data, index) ==
    IF data.shape[1] # Len(index.labels)
    THEN [ok |-> FALSE, index |-> index, values |-> NoArray]
    ELSE [ok |-> TRUE, index |-> index, values |-> data]

NoSeries == [ok |-> FALSE, index |-> NoneIndex, values |-> NoArray]

\* the arguments Empirical is constructed with, or the error raised before
Empirical(error, spl, weights, index, columns) ==
    [error |-> error, spl |-> spl, weights |-> weights, index |-> index,
     columns |-> columns]

NoEmpirical == Empirical("", NoTable, NoSeries, NoneIndex, NoneIndex)

\* _LifelinesAdapter.__init__
LifelinesAdapter__init__ == [fitted |-> FALSE, y_cols |-> NoneIndex]

\* _LifelinesAdapter._fit
LifelinesAdapter_fit(self, X, y) == [fitted |-> TRUE, y_cols |-> y.columns]

\* _LifelinesAdapter._predict_proba, lifelines_survf being what the
\* lifelines estimator predicts on X
LifelinesAdapter_predict_proba(self, X, lifelines_survf) ==
    LET times == AllButLast(lifelines_survf.index)
        nt == Len(times.labels)
        mi == from_product_swaplevel(X.index, nt)
        times_val == repeat(times.labels, Len(X.index.labels))
        times_df == DataFrame(times_val, mi, self.y_cols)
        weights == neg_diff_flatten(lifelines_survf.values)
        weights_df == Series(weights, mi)
    IN  IF ~times_df.ok
        THEN Empirical("ValueError: Shape of passed values", NoTable, NoSeries,
                       NoneIndex, NoneIndex)
        ELSE IF ~weights_df.ok
        THEN Empirical("ValueError: Length of values does not match length of index",
                       NoTable, NoSeries, NoneIndex, NoneIndex)
        ELSE Empirical("", times_df, weights_df, X.index, self.y_cols)

SEvent(op) == [op |-> op, X |-> NoFrame, y |-> NoFrame, survf |-> NoTable, dist |-> NoEmpirical]

InitSurv ==
    /\ objs = <<LifelinesAdapter__init__>>
    /\ last = SEvent("__init__")

\* fit(X, y)
LifelinesFit(X, y) ==
    /\ objs' = <<LifelinesAdapter_fit(objs[1], X, y)>>
    /\ last' = [SEvent("fit") EXCEPT !.X = X, !.y = y]

\* predict_proba(X) on the fitted adapter
PredictProba(X, lifelines_survf) ==
    /\ objs[1].fitted
    /\ objs' = objs
    /\ last' = [SEvent("predict_proba") EXCEPT
                    !.X = X, !.survf = lifelines_survf,
                    !.dist = LifelinesAdapter_predict_proba(objs[1], X, lifelines_survf)]

\* the feature tables of the survival adapter: one feature column
SurvFrames ==
    {Frame(i, LabelIndex(1, 30)) :
        i \in {RangeIndex(n) : n \in 1..MaxRows} \cup {LabelIndex(n, 10) : n \in 1..MaxRows}}

NextSurv ==
    \/ \E X \in SurvFrames : \E y \in YFrames(X) : LifelinesFit(X, y)
    \/ \E X \in SurvFrames, T \in 2..MaxTimes :
          \E lifelines_survf \in SurvivalFunctions(T, X) : PredictProba(X, lifelines_survf)

SpecSurv == InitSurv /\ [][NextSurv]_vars

(* ------------------------------------------------------- claims: survival *)

\* the position of a label in an index
Position(index, label) == CHOOSE i \in 1..Len(index.labels) : index.labels[i] = label

\* C30: after _predict_proba on an adapter fitted to a single-column y, for
\* a survival function over T time points and n rows of X, the weights have
\* n * (T - 1) entries, as many as the sample table has rows, and the entry
\* at the (time, row) pair of the sample index is the drop of that row's
\* survival function from that time point to the next.
C30_WeightsAreDrops ==
    (last.op = "predict_proba" /\ Len(objs[1].y_cols.labels) = 1) =>
        LET n == Len(last.X.index.labels)
            T == Len(last.survf.index.labels)
            w == last.dist.weights
        IN  /\ last.dist.error = ""
            /\ Len(w.values.data) = n * (T - 1)
            /\ Len(w.values.data) = Len(last.dist.spl.index.labels)
            /\ \A k \in 1..Len(w.values.data) :
                  LET t == w.index.labels[k][1] + 1
                      j == Position(last.X.index, w.index.labels[k][2])
                  IN  w.values.data[k] = Cell(last.survf.values, t, j)
                                         - Cell(last.survf.values, t + 1, j)

====
